---- MODULE Spec2Model ----
(***************************************************************************)
(* Model of the restaurant chatbot's business-logic layer:                  *)
(*   actions/validators.py  - the booking form's field validators           *)
(*   actions/actions.py     - the JSON-backed booking store, save-booking   *)
(*                            and the atomic-write primitive                *)
(* Text is modelled as sequences of one-character strings, so that strip,   *)
(* lower, split, digit extraction and parsing are computed as the code      *)
(* computes them.                                                           *)
(***************************************************************************)
EXTENDS Integers, Sequences, FiniteSets, TLC

VARIABLES
    \* ---- validators (ValidateBookingForm) ----
    slot_value,       \* the candidate value handed to the validator
    requested_slot,   \* tracker.get_slot("requested_slot")
    intent_name,      \* tracker.latest_message["intent"]["name"]
    today,            \* datetime.now().date(), as <<year, month, day>>
    validator,        \* which validator has run ("none" before the call)
    result,           \* the value the validator returned for its field
    \* ---- the booking store and ActionSaveBooking.run ----
    fs,               \* the data directory: path -> file (absent, or its text)
    pc,               \* where the current invocation stands
    op,               \* the operation last called: "none", "load_bookings", "save_booking"
    clock,            \* calls so far; stamps created_at
    booking_record,   \* the record built by the current run()
    messages,         \* what the dispatcher has uttered in the current invocation
    ret,              \* what the last call returned (nothing, when it raised)
    sms,              \* the notifier's state: attempted, sms_sent, sms_error
    pre,              \* the directory as it was when the last call began
    persist_failed,   \* load_bookings or save_bookings raised inside run()
    \* ---- overlapping atomic_write_json calls and readers of the target ----
    original,         \* the target file before any call (absent, or its text)
    dir,              \* directory entries: path -> inode number (0: no entry)
    inodes,           \* inode number -> the text the inode holds
    writers,          \* each atomic_write_json call: position, document, descriptor, offset
    readers           \* each reader of the target: position, descriptor, what it read

valVars == <<slot_value, requested_slot, intent_name, today, validator, result>>
storeVars == <<fs, pc, op, clock, booking_record, messages, ret, sms, pre, persist_failed>>
awVars == <<original, dir, inodes, writers, readers>>
vars == <<valVars, storeVars, awVars>>

----------------------------------------------------------------------------
(* Python text primitives *)

DIGITS == <<"0","1","2","3","4","5","6","7","8","9">>
UPPER == <<"A","B","C","D","E","F","G","H","I","J","K","L","M",
           "N","O","P","Q","R","S","T","U","V","W","X","Y","Z">>
LOWER == <<"a","b","c","d","e","f","g","h","i","j","k","l","m",
           "n","o","p","q","r","s","t","u","v","w","x","y","z">>

\* ch.isdigit() (ASCII digits)
IsDigit(c) == \E i \in 1..10 : DIGITS[i] = c
DigitVal(c) == (CHOOSE i \in 1..10 : DIGITS[i] = c) - 1
IsLowerAlpha(c) == \E i \in 1..26 : LOWER[i] = c
IsSpace(c) == c \in {" ", "\t", "\n"}

LowerCh(c) == IF \E i \in 1..26 : UPPER[i] = c
              THEN LOWER[CHOOSE i \in 1..26 : UPPER[i] = c]
              ELSE c
\* str.lower()
Lower(s) == [i \in 1..Len(s) |-> LowerCh(s[i])]

RECURSIVE LStrip(_)
LStrip(s) == IF Len(s) > 0 /\ IsSpace(s[1]) THEN LStrip(Tail(s)) ELSE s
RECURSIVE RStrip(_)
RStrip(s) == IF Len(s) > 0 /\ IsSpace(s[Len(s)])
             THEN RStrip(SubSeq(s, 1, Len(s) - 1)) ELSE s
\* str.strip()
Strip(s) == RStrip(LStrip(s))

RECURSIVE SplitWs(_, _, _)
SplitWs(s, cur, acc) ==
    IF Len(s) = 0 THEN (IF Len(cur) = 0 THEN acc ELSE Append(acc, cur))
    ELSE IF IsSpace(s[1])
         THEN SplitWs(Tail(s), <<>>, IF Len(cur) = 0 THEN acc ELSE Append(acc, cur))
         ELSE SplitWs(Tail(s), Append(cur, s[1]), acc)
\* str.split(): split on runs of whitespace
Split(s) == SplitWs(s, <<>>, <<>>)

RECURSIVE SplitOnFrom(_, _, _, _)
SplitOnFrom(s, c, cur, acc) ==
    IF Len(s) = 0 THEN Append(acc, cur)
    ELSE IF s[1] = c THEN SplitOnFrom(Tail(s), c, <<>>, Append(acc, cur))
         ELSE SplitOnFrom(Tail(s), c, Append(cur, s[1]), acc)
\* the pieces of s between occurrences of the character c
SplitOn(s, c) == SplitOnFrom(s, c, <<>>, <<>>)

RECURSIVE JoinSp(_)
\* " ".join(words)
JoinSp(ws) == IF Len(ws) = 0 THEN <<>>
              ELSE IF Len(ws) = 1 THEN ws[1]
              ELSE ws[1] \o <<" ">> \o JoinSp(Tail(ws))

\* k in v  (substring test)
Contains(k, v) == \E i \in 1..(Len(v) - Len(k) + 1) : SubSeq(v, i, i + Len(k) - 1) = k

AllDigits(s) == \A i \in 1..Len(s) : IsDigit(s[i])

\* Python's integers are unbounded and TLC's are 32-bit: a value of IntCap or more
\* is represented by IntCap.  Every number the code compares with is far below it.
IntCap == 100000000

RECURSIVE ToInt(_)
\* int(s) for a run of digits
ToInt(s) == IF Len(s) = 0 THEN 0
            ELSE LET hi == ToInt(SubSeq(s, 1, Len(s) - 1))
                 IN  IF hi >= IntCap \div 10 THEN IntCap
                     ELSE hi * 10 + DigitVal(s[Len(s)])

RECURSIVE IntStr(_)
\* str(n) for n >= 0
IntStr(n) == IF n < 10 THEN <<DIGITS[n + 1]>>
             ELSE IntStr(n \div 10) \o <<DIGITS[(n % 10) + 1]>>

\* f"{n:02d}" and the zero-padded fields of isoformat()/strftime
Pad2(n) == IF n < 10 THEN <<"0">> \o IntStr(n) ELSE IntStr(n)
Pad4(n) == IF n < 10 THEN <<"0","0","0">> \o IntStr(n)
           ELSE IF n < 100 THEN <<"0","0">> \o IntStr(n)
           ELSE IF n < 1000 THEN <<"0">> \o IntStr(n)
           ELSE IntStr(n)

\* "".join(ch for ch in text if ch.isdigit())
_normalize_digits(text) == SelectSeq(text, IsDigit)

----------------------------------------------------------------------------
(* Python values that reach a validator: None, a str, an int *)

NoneV == [t |-> "none"]
StrV(s) == [t |-> "str", s |-> s]
IntV(n) == [t |-> "int", n |-> n]
\* the validator did not return: calling .strip() on a non-str raised AttributeError
Raised == [t |-> "raise"]

\* bool(value)
Truthy(v) == CASE v.t = "none" -> FALSE
               [] v.t = "str" -> Len(v.s) > 0
               [] v.t = "int" -> v.n # 0
               [] OTHER -> TRUE

\* str(value)
PyStr(v) == CASE v.t = "none" -> <<"N","o","n","e">>
              [] v.t = "str" -> v.s
              [] v.t = "int" -> IntStr(v.n)

----------------------------------------------------------------------------
(* validators.py: the trigger-phrase guard *)

TRIGGER_WORDS == {
    <<"h","i">>, <<"h","e","l","l","o">>, <<"h","e","y">>, <<"m","e","n","u">>,
    <<"b","o","o","k","i","n","g">>, <<"b","o","o","k">>,
    <<"b","o","o","k"," ","a"," ","t","a","b","l","e">>,
    <<"r","e","s","e","r","v","e">>, <<"t","a","b","l","e">> }

\* the keyword list of lines 34 and 38
TriggerKeywords == {
    <<"b","o","o","k">>, <<"b","o","o","k","i","n","g">>, <<"m","e","n","u">>,
    <<"r","e","s","e","r","v","e">>, <<"h","i">>, <<"h","e","l","l","o">>,
    <<"t","a","b","l","e">> }

TriggerIntents == {"greet", "book_table", "show_menu", "goodbye"}

\* value.strip() on a truthy non-str value raises AttributeError
TriggerRaises(value) == Truthy(value) /\ value.t # "str"

_is_trigger_phrase(value, intent) ==
    IF ~Truthy(value) THEN FALSE
    ELSE LET v == Lower(Strip(value.s))
             short == Len(Split(v)) <= 3
             hasKeyword == \E k \in TriggerKeywords : Contains(k, v)
         IN  IF v \in TRIGGER_WORDS THEN TRUE
             ELSE IF intent \in TriggerIntents /\ short /\ hasKeyword THEN TRUE
             ELSE IF short /\ hasKeyword THEN TRUE
             ELSE FALSE

----------------------------------------------------------------------------
(* validators.py: ValidateBookingForm *)

\* validate_name with the trigger-phrase guard of lines 74-76 left out
validate_name_NoGuard(value, requested, intent) ==
    IF requested # "name" THEN NoneV
    ELSE IF value.t # "str" \/ Len(Strip(value.s)) < 2 THEN NoneV
    ELSE StrV(JoinSp(Split(Strip(value.s))))

validate_name(value, requested, intent) ==
    IF requested # "name" THEN NoneV
    ELSE IF TriggerRaises(value) THEN Raised
    ELSE IF _is_trigger_phrase(value, intent) THEN NoneV
    ELSE IF value.t # "str" \/ Len(Strip(value.s)) < 2 THEN NoneV
    ELSE StrV(JoinSp(Split(Strip(value.s))))

PhoneMinDigits == 7
PhoneMaxDigits == 15

\* validate_phone with the lower limit of line 103 off by one (<= for <)
validate_phone_OffByOne(value, requested, intent) ==
    IF requested # "phone" THEN NoneV
    ELSE IF TriggerRaises(value) THEN Raised
    ELSE IF _is_trigger_phrase(value, intent) THEN NoneV
    ELSE LET digits == _normalize_digits(PyStr(value))
         IN  IF Len(digits) <= PhoneMinDigits \/ Len(digits) > PhoneMaxDigits
             THEN NoneV
             ELSE StrV(digits)

validate_phone(value, requested, intent) ==
    IF requested # "phone" THEN NoneV
    ELSE IF TriggerRaises(value) THEN Raised
    ELSE IF _is_trigger_phrase(value, intent) THEN NoneV
    ELSE LET digits == _normalize_digits(PyStr(value))
         IN  IF Len(digits) < PhoneMinDigits \/ Len(digits) > PhoneMaxDigits
             THEN NoneV
             ELSE StrV(digits)

(* ---- dates: datetime.date as <<year, month, day>> ---- *)

IsLeap(y) == (y % 4 = 0 /\ y % 100 # 0) \/ y % 400 = 0
DaysInMonth(y, m) == IF m \in {4, 6, 9, 11} THEN 30
                     ELSE IF m = 2 THEN (IF IsLeap(y) THEN 29 ELSE 28)
                     ELSE 31
\* the datetime(year, month, day) constructor accepts exactly these
ValidDate(y, m, d) == /\ y >= 1 /\ y <= 9999
                      /\ m >= 1 /\ m <= 12
                      /\ d >= 1 /\ d <= DaysInMonth(y, m)
\* date.__lt__
DateLT(a, b) == \/ a[1] < b[1]
                \/ a[1] = b[1] /\ a[2] < b[2]
                \/ a[1] = b[1] /\ a[2] = b[2] /\ a[3] < b[3]
\* date.isoformat(): YYYY-MM-DD
isoformat(d) == Pad4(d[1]) \o <<"-">> \o Pad2(d[2]) \o <<"-">> \o Pad2(d[3])

NoMatch == <<0, 0, 0>>

\* _strptime's field patterns:  %d = 3[0-1]|[1-2]\d|0[1-9]|[1-9]
\*                              %m = 1[0-2]|0[1-9]|[1-9]      %Y = \d\d\d\d
\* (a piece is a whole field here, since the separator must follow it)
FieldD(p) == Len(p) \in {1, 2} /\ AllDigits(p) /\ ToInt(p) >= 1 /\ ToInt(p) <= 31
FieldM(p) == Len(p) \in {1, 2} /\ AllDigits(p) /\ ToInt(p) >= 1 /\ ToInt(p) <= 12
FieldY(p) == Len(p) = 4 /\ AllDigits(p)

\* datetime.strptime(s, fmt).date() for the three formats tried, NoMatch on ValueError
\* fmt: "%d/%m/%Y", "%Y-%m-%d", "%d-%m-%Y"
strptime_date(s, fmt) ==
    LET sep == IF fmt = "%d/%m/%Y" THEN "/" ELSE "-"
        ps == SplitOn(s, sep)
        yi == IF fmt = "%Y-%m-%d" THEN 1 ELSE 3
        di == IF fmt = "%Y-%m-%d" THEN 3 ELSE 1
    IN  IF Len(ps) = 3 /\ FieldY(ps[yi]) /\ FieldM(ps[2]) /\ FieldD(ps[di])
           /\ ValidDate(ToInt(ps[yi]), ToInt(ps[2]), ToInt(ps[di]))
        THEN <<ToInt(ps[yi]), ToInt(ps[2]), ToInt(ps[di])>>
        ELSE NoMatch

\* the digits of s from position i, at most n of them
DigitRun(s, i, n) ==
    LET k == CHOOSE k \in 0..n :
                 /\ \A j \in 0..(k - 1) : i + j <= Len(s) /\ IsDigit(s[i + j])
                 /\ (k = n \/ i + k > Len(s) \/ ~IsDigit(s[i + k]))
    IN  SubSeq(s, i, i + k - 1)

\* re.match at position i of (\d{1,2})[^\d](\d{1,2})[^\d](\d{4}); the groups as
\* <<g1, g2, g3>>, or <<>> when the pattern does not match there.  A \d{1,2} must
\* be followed by a non-digit, so the greedy choice is the only one that can match.
DateRegexAt(s, i) ==
    LET g1 == DigitRun(s, i, 2)
        p2 == i + Len(g1) + 1
        g2 == DigitRun(s, p2, 2)
        p3 == p2 + Len(g2) + 1
        g3 == DigitRun(s, p3, 4)
    IN  IF /\ Len(g1) >= 1
           /\ p2 - 1 <= Len(s) /\ ~IsDigit(s[p2 - 1])
           /\ Len(g2) >= 1
           /\ p3 - 1 <= Len(s) /\ ~IsDigit(s[p3 - 1])
           /\ Len(g3) = 4
        THEN <<g1, g2, g3>>
        ELSE <<>>

\* re.search: the leftmost position where the pattern matches
DateRegexSearch(s) ==
    IF \E i \in 1..Len(s) : DateRegexAt(s, i) # <<>>
    THEN DateRegexAt(s, CHOOSE i \in 1..Len(s) :
                            /\ DateRegexAt(s, i) # <<>>
                            /\ \A j \in 1..(i - 1) : DateRegexAt(s, j) = <<>>)
    ELSE <<>>

\* DateOutcome with the comparison of lines 130 and 142 as <= : today is rejected too
DateOutcome_RejectToday(d, now) ==
    IF DateLT(d, now) \/ d = now THEN NoneV ELSE StrV(isoformat(d))

\* the body of the try blocks: reject the past, else store as YYYY-MM-DD
DateOutcome(d, now) == IF DateLT(d, now) THEN NoneV ELSE StrV(isoformat(d))

validate_date(value, requested, intent, now) ==
    IF requested # "date" THEN NoneV
    ELSE IF TriggerRaises(value) THEN Raised
    ELSE IF _is_trigger_phrase(value, intent) THEN NoneV
    ELSE LET s == Strip(PyStr(value))
             f1 == strptime_date(s, "%d/%m/%Y")
             f2 == strptime_date(s, "%Y-%m-%d")
             f3 == strptime_date(s, "%d-%m-%Y")
             m == DateRegexSearch(s)
         IN  IF f1 # NoMatch THEN DateOutcome(f1, now)
             ELSE IF f2 # NoMatch THEN DateOutcome(f2, now)
             ELSE IF f3 # NoMatch THEN DateOutcome(f3, now)
             ELSE IF m # <<>> /\ ValidDate(ToInt(m[3]), ToInt(m[2]), ToInt(m[1]))
                  THEN DateOutcome(<<ToInt(m[3]), ToInt(m[2]), ToInt(m[1])>>, now)
             ELSE NoneV

(* ---- times ---- *)

\* _strptime's field patterns:  %H = 2[0-3]|[0-1]\d|\d     %M = [0-5]\d|\d
FieldH(p) == Len(p) \in {1, 2} /\ AllDigits(p) /\ ToInt(p) <= 23
FieldMin(p) == Len(p) \in {1, 2} /\ AllDigits(p) /\ ToInt(p) <= 59

\* datetime.strptime(s, "%H:%M").time() as <<hour, minute>>, <<>> on ValueError
strptime_time(s) ==
    LET ps == SplitOn(s, ":")
    IN  IF Len(ps) = 2 /\ FieldH(ps[1]) /\ FieldMin(ps[2])
        THEN <<ToInt(ps[1]), ToInt(ps[2])>>
        ELSE <<>>

\* one way of matching (\d{1,2})[:\.]?(\d{2}) at position i: n1 digits, the
\* optional separator taken (sep = 1) or not (sep = 0), then two digits
TimeRegexTry(s, i, n1, sep) ==
    /\ i + n1 + sep + 1 <= Len(s)
    /\ \A j \in 0..(n1 - 1) : IsDigit(s[i + j])
    /\ (sep = 1 => s[i + n1] \in {":", "."})
    /\ IsDigit(s[i + n1 + sep]) /\ IsDigit(s[i + n1 + sep + 1])

\* the order in which the regex engine tries them: greedy, then backtracking
TimeRegexOrder == << <<2, 1>>, <<2, 0>>, <<1, 1>>, <<1, 0>> >>

TimeRegexAt(s, i) ==
    IF \E k \in 1..4 : TimeRegexTry(s, i, TimeRegexOrder[k][1], TimeRegexOrder[k][2])
    THEN LET k == CHOOSE k \in 1..4 :
                      /\ TimeRegexTry(s, i, TimeRegexOrder[k][1], TimeRegexOrder[k][2])
                      /\ \A l \in 1..(k - 1) :
                            ~TimeRegexTry(s, i, TimeRegexOrder[l][1], TimeRegexOrder[l][2])
             n1 == TimeRegexOrder[k][1]
             sep == TimeRegexOrder[k][2]
         IN  <<SubSeq(s, i, i + n1 - 1), SubSeq(s, i + n1 + sep, i + n1 + sep + 1)>>
    ELSE <<>>

\* re.search: the leftmost position where the pattern matches
TimeRegexSearch(s) ==
    IF \E i \in 1..Len(s) : TimeRegexAt(s, i) # <<>>
    THEN TimeRegexAt(s, CHOOSE i \in 1..Len(s) :
                            /\ TimeRegexAt(s, i) # <<>>
                            /\ \A j \in 1..(i - 1) : TimeRegexAt(s, j) = <<>>)
    ELSE <<>>

\* t.strftime("%H:%M") and f"{h:02d}:{mm:02d}"
FormatHM(h, mm) == Pad2(h) \o <<":">> \o Pad2(mm)

\* validate_time with the hour limit of line 179 off by one (h <= 24)
validate_time_Hour24(value, requested, intent) ==
    IF requested # "time" THEN NoneV
    ELSE IF TriggerRaises(value) THEN Raised
    ELSE IF _is_trigger_phrase(value, intent) THEN NoneV
    ELSE LET s == Strip(PyStr(value))
             t == strptime_time(s)
             m == TimeRegexSearch(s)
         IN  IF t # <<>> THEN StrV(FormatHM(t[1], t[2]))
             ELSE IF m # <<>> /\ ToInt(m[1]) <= 24 /\ ToInt(m[2]) <= 59
                  THEN StrV(FormatHM(ToInt(m[1]), ToInt(m[2])))
             ELSE NoneV

validate_time(value, requested, intent) ==
    IF requested # "time" THEN NoneV
    ELSE IF TriggerRaises(value) THEN Raised
    ELSE IF _is_trigger_phrase(value, intent) THEN NoneV
    ELSE LET s == Strip(PyStr(value))
             t == strptime_time(s)
             m == TimeRegexSearch(s)
         IN  IF t # <<>> THEN StrV(FormatHM(t[1], t[2]))
             ELSE IF m # <<>> /\ ToInt(m[1]) <= 23 /\ ToInt(m[2]) <= 59
                  THEN StrV(FormatHM(ToInt(m[1]), ToInt(m[2])))
             ELSE NoneV

(* ---- party size ---- *)

_number_words == <<
    <<"o","n","e">>, <<"t","w","o">>, <<"t","h","r","e","e">>, <<"f","o","u","r">>,
    <<"f","i","v","e">>, <<"s","i","x">>, <<"s","e","v","e","n">>,
    <<"e","i","g","h","t">>, <<"n","i","n","e">>, <<"t","e","n">>,
    <<"e","l","e","v","e","n">>, <<"t","w","e","l","v","e">>,
    <<"t","h","i","r","t","e","e","n">>, <<"f","o","u","r","t","e","e","n">>,
    <<"f","i","f","t","e","e","n">>, <<"s","i","x","t","e","e","n">>,
    <<"s","e","v","e","n","t","e","e","n">>, <<"e","i","g","h","t","e","e","n">>,
    <<"n","i","n","e","t","e","e","n">>, <<"t","w","e","n","t","y">> >>

IsNumberWord(w) == \E n \in 1..Len(_number_words) : _number_words[n] = w
NumberWordValue(w) == CHOOSE n \in 1..Len(_number_words) : _number_words[n] = w

RECURSIVE RunsFrom(_, _, _, _)
RunsFrom(s, In(_), cur, acc) ==
    IF Len(s) = 0 THEN (IF Len(cur) = 0 THEN acc ELSE Append(acc, cur))
    ELSE IF In(s[1]) THEN RunsFrom(Tail(s), In, Append(cur, s[1]), acc)
    ELSE RunsFrom(Tail(s), In, <<>>, IF Len(cur) = 0 THEN acc ELSE Append(acc, cur))
\* re.findall(r"\d+", s) and re.findall(r"[a-z]+", s): the maximal runs, in order
DigitRuns(s) == RunsFrom(s, IsDigit, <<>>, <<>>)
AlphaRuns(s) == RunsFrom(s, IsLowerAlpha, <<>>, <<>>)

PartyMin == 1
PartyMax == 20

\* validate_party_size with the upper limit of line 215 off by one (>= for >)
validate_party_size_OffByOne(value, requested, intent) ==
    IF requested # "party_size" THEN NoneV
    ELSE IF TriggerRaises(value) THEN Raised
    ELSE IF _is_trigger_phrase(value, intent) THEN NoneV
    ELSE IF ~Truthy(value) THEN NoneV
    ELSE LET sv == Lower(Strip(PyStr(value)))
             ds == DigitRuns(sv)
             ws == SelectSeq(AlphaRuns(sv), IsNumberWord)
             found == Len(ds) > 0 \/ Len(ws) > 0
             num == IF Len(ds) > 0 THEN ToInt(ds[1]) ELSE NumberWordValue(ws[1])
         IN  IF ~found THEN NoneV
             ELSE IF num < PartyMin \/ num >= PartyMax THEN NoneV
             ELSE IntV(num)

validate_party_size(value, requested, intent) ==
    IF requested # "party_size" THEN NoneV
    ELSE IF TriggerRaises(value) THEN Raised
    ELSE IF _is_trigger_phrase(value, intent) THEN NoneV
    ELSE IF ~Truthy(value) THEN NoneV
    ELSE LET sv == Lower(Strip(PyStr(value)))
             ds == DigitRuns(sv)
             ws == SelectSeq(AlphaRuns(sv), IsNumberWord)
             found == Len(ds) > 0 \/ Len(ws) > 0
             num == IF Len(ds) > 0 THEN ToInt(ds[1]) ELSE NumberWordValue(ws[1])
         IN  IF ~found THEN NoneV
             ELSE IF num < PartyMin \/ num > PartyMax THEN NoneV
             ELSE IntV(num)

----------------------------------------------------------------------------
(* actions.py: the JSON documents *)

\* Python values read from and written to the bookings file
PyNone == [py |-> "none"]
PyList(items) == [py |-> "list", items |-> items]
\* a dict with the key "bookings", and one without it
PyDict(v) == [py |-> "dict", has |-> TRUE, bookings |-> v]
PyDictEmpty == [py |-> "dict", has |-> FALSE]
\* json.load raised (JSONDecodeError)
JsonError == [py |-> "error"]

\* The text of a file is a sequence of tokens; each booking record is one token.
\* (A record holds str and int values only, which json.dump and json.load carry
\* over unchanged.)
T(x) == [tok |-> x]
R(rec) == [tok |-> "record", rec |-> rec]

RECURSIVE JsonDump(_)
\* json.dump(data, f, indent=2, ensure_ascii=False): the text written
JsonDump(v) ==
    CASE v.py = "none" -> <<T("null")>>
      [] v.py = "list" -> <<T("[")>> \o [i \in 1..Len(v.items) |-> R(v.items[i])] \o <<T("]")>>
      [] v.py = "dict" /\ ~v.has -> <<T("{"), T("}")>>
      [] v.py = "dict" /\ v.has ->
            <<T("{"), T("\"bookings\":")>> \o JsonDump(v.bookings) \o <<T("}")>>

\* json.load of a value that is not a dict
JsonLoadPlain(text) ==
    IF text = <<T("null")>> THEN PyNone
    ELSE IF /\ Len(text) >= 2
            /\ text[1] = T("[") /\ text[Len(text)] = T("]")
            /\ \A i \in 2..(Len(text) - 1) : text[i].tok = "record"
         THEN PyList([i \in 1..(Len(text) - 2) |-> text[i + 1].rec])
    ELSE JsonError

\* json.load(f): the value, or JsonError for text that is not a JSON document
JsonLoad(text) ==
    IF text = <<T("{"), T("}")>> THEN PyDictEmpty
    ELSE IF /\ Len(text) >= 4
            /\ text[1] = T("{") /\ text[2] = T("\"bookings\":") /\ text[Len(text)] = T("}")
            /\ JsonLoadPlain(SubSeq(text, 3, Len(text) - 1)) # JsonError
         THEN PyDict(JsonLoadPlain(SubSeq(text, 3, Len(text) - 1)))
    ELSE JsonLoadPlain(text)

(* actions.py: the files *)

BOOKINGS_FILE == "bookings.json"
TmpPath == "bookings.json.tmp"      \* path + ".tmp"
BakPath == "bookings.json.bak"      \* BOOKINGS_FILE + ".bak"
Paths == {BOOKINGS_FILE, TmpPath, BakPath}

Absent == [exists |-> FALSE]
File(text) == [exists |-> TRUE, text |-> text]

\* what can go wrong in atomic_write_json: nothing; open(tmp, "w") raises; the
\* write raises part-way (the temporary file is left truncated); os.replace raises
AtomicWriteFaults == {"ok", "open", "write", "replace"}

\* atomic_write_json(path, data) on the directory f: the directory afterwards and
\* whether the call raised
atomic_write_json(f, path, data, fault) ==
    LET text == JsonDump(data)
    IN  CASE fault = "open" -> [fs |-> f, raised |-> TRUE]
          [] fault = "write" ->
                [fs |-> [f EXCEPT ![TmpPath] = File(SubSeq(text, 1, Len(text) \div 2))],
                 raised |-> TRUE]
          [] fault = "replace" ->
                [fs |-> [f EXCEPT ![TmpPath] = File(text)], raised |-> TRUE]
          [] fault = "ok" ->
                [fs |-> [f EXCEPT ![TmpPath] = Absent, ![path] = File(text)],
                 raised |-> FALSE]

\* os.rename(src, dst); when it raises (ok = FALSE) nothing has moved
os_rename(f, src, dst, ok) ==
    IF ok THEN [f EXCEPT ![dst] = f[src], ![src] = Absent] ELSE f

\* the empty store {"bookings": []}
Base == PyDict(PyList(<<>>))
NoReturn == [py |-> "raised"]

\* isinstance(data, dict) and "bookings" in data and isinstance(data["bookings"], list)
IsStore(data) == data.py = "dict" /\ data.has /\ data.bookings.py = "list"

\* the except branch of load_bookings (lines 108-116) on the directory f
LoadRecover(f, ren, w2) ==
    LET moved == os_rename(f, BOOKINGS_FILE, BakPath, ren)     \* a failure is passed over
        b == atomic_write_json(moved, BOOKINGS_FILE, Base, w2)
    IN  [fs |-> b.fs, raised |-> b.raised, ret |-> IF b.raised THEN NoReturn ELSE Base]

\* load_bookings(): the directory afterwards, whether it raised, and what it
\* returned.  w1 is the fate of the first atomic_write_json it makes (lines 94,
\* 106), ren that of os.rename (line 111), w2 that of the write at line 115.
load_bookings(f, w1, ren, w2) ==
    IF ~f[BOOKINGS_FILE].exists
    THEN LET a == atomic_write_json(f, BOOKINGS_FILE, Base, w1)
         IN  [fs |-> a.fs, raised |-> a.raised,
              ret |-> IF a.raised THEN NoReturn ELSE Base]
    ELSE LET data == JsonLoad(f[BOOKINGS_FILE].text)
         IN  IF data = JsonError THEN LoadRecover(f, ren, w2)
             ELSE IF IsStore(data) THEN [fs |-> f, raised |-> FALSE, ret |-> data]
             ELSE IF data.py = "list"
                  THEN [fs |-> f, raised |-> FALSE, ret |-> PyDict(data)]
             ELSE \* unexpected shape: the reset is inside the try block
                  LET a == atomic_write_json(f, BOOKINGS_FILE, Base, w1)
                  IN  IF a.raised THEN LoadRecover(a.fs, ren, w2)
                      ELSE [fs |-> a.fs, raised |-> FALSE, ret |-> Base]

\* save_bookings(bookings_list)
save_bookings(f, bookings_list, fault) ==
    atomic_write_json(f, BOOKINGS_FILE, PyDict(PyList(bookings_list)), fault)

\* the records a caller gets by loading the store from the directory f
Reload(f) == load_bookings(f, "ok", TRUE, "ok").ret.bookings.items

(* actions.py: ActionSaveBooking.run *)

\* tracker.get_slot(name) or ""
OrEmpty(v) == IF Truthy(v) THEN v ELSE StrV(<<>>)

\* actions.py's own _normalize_digits: the digits of (text or "")
actions_normalize_digits(text) == SelectSeq(text, IsDigit)

\* random.randint(1000, 9999)
BookingIdMin == 1000
BookingIdMax == 9999

\* the booking_record dict of lines 232-241
BookingRecord(slots, id, now) ==
    [booking_id |-> <<"BKG", id>>,
     name |-> OrEmpty(slots.name),
     phone |-> StrV(actions_normalize_digits(PyStr(OrEmpty(slots.phone)))),
     date |-> OrEmpty(slots.date),
     time |-> OrEmpty(slots.time),
     party_size |-> OrEmpty(slots.party_size),
     special_request |-> OrEmpty(slots.special_request),
     created_at |-> now]

\* bookings.append(booking_record), with the record put first instead
AppendBooking_Prepend(bookings, rec) == <<rec>> \o bookings

\* bookings.append(booking_record)   (line 245)
AppendBooking(bookings, rec) == Append(bookings, rec)

\* lines 243-246: load the store, append the record, save the store
PersistBooking(f, rec, w1, ren, w2, ws) ==
    LET l == load_bookings(f, w1, ren, w2)
    IN  IF l.raised THEN [fs |-> l.fs, raised |-> TRUE]
        ELSE LET bookings == IF l.ret.py = "dict" /\ l.ret.has
                             THEN l.ret.bookings.items ELSE <<>>
             IN  save_bookings(l.fs, AppendBooking(bookings, rec), ws)

\* what the provider call of lines 259-268 can do: deliver, or raise an exception
\* whose str() is some text, or one whose str() is empty
ProviderOutcomes == {"delivered", "raises", "raises_no_text"}

NotAttempted == [attempted |-> FALSE, sms_sent |-> FALSE, sms_error |-> NoneV, raised |-> FALSE]

\* the notifier with the try/except of lines 258-273 left out: the error escapes
SendSms_Uncaught(gate, provider) ==
    IF ~gate THEN NotAttempted
    ELSE IF provider = "delivered"
         THEN [attempted |-> TRUE, sms_sent |-> TRUE, sms_error |-> NoneV, raised |-> FALSE]
    ELSE [attempted |-> TRUE, sms_sent |-> FALSE, sms_error |-> NoneV, raised |-> TRUE]

\* lines 255-275: the send, attempted only when the gate of line 257 is open; an
\* exception is caught and its text kept in sms_error
SendSms(gate, provider) ==
    IF ~gate THEN NotAttempted
    ELSE IF provider = "delivered"
         THEN [attempted |-> TRUE, sms_sent |-> TRUE, sms_error |-> NoneV, raised |-> FALSE]
    ELSE IF provider = "raises"
         THEN [attempted |-> TRUE, sms_sent |-> FALSE,
               sms_error |-> StrV(<<"H","T","T","P"," ","4","0","0">>), raised |-> FALSE]
    ELSE [attempted |-> TRUE, sms_sent |-> FALSE, sms_error |-> StrV(<<>>), raised |-> FALSE]

\* the message of lines 277-282
SmsMessage(s, rec) ==
    IF s.sms_sent THEN [kind |-> "A confirmation SMS was sent", detail |-> rec.phone]
    ELSE IF Truthy(s.sms_error)
         THEN [kind |-> "Booking saved, but failed to send SMS", detail |-> s.sms_error]
    ELSE [kind |-> "Booking saved. (SMS not sent - Twilio not configured.)", detail |-> NoneV]

\* the SlotSet events returned at lines 285-294
ReturnedSlots(rec) ==
    [returned |-> TRUE,
     booking_confirmed |-> TRUE,
     booking_id |-> rec.booking_id,
     name |-> rec.name, phone |-> rec.phone, date |-> rec.date, time |-> rec.time,
     party_size |-> rec.party_size, special_request |-> rec.special_request]

----------------------------------------------------------------------------
(* The inputs the validators are exercised on *)

MaxPhoneDigits == 16     \* phone candidates carry 0..MaxPhoneDigits digits
MaxBack == 2             \* date candidates start MaxBack days before today
MaxAhead == 92           \* ... and end MaxAhead days after today
MaxHour == 24            \* time candidates have hours 0..MaxHour
MaxParty == 22           \* party-size candidates are the numerals 0..MaxParty

\* days since 1970-01-01 of a civil date, and back (proleptic Gregorian calendar,
\* as date.toordinal() counts), used to step through the calendar
DaysFromCivil(d) ==
    LET y == IF d[2] <= 2 THEN d[1] - 1 ELSE d[1]
        era == y \div 400
        yoe == y - era * 400
        mp == IF d[2] > 2 THEN d[2] - 3 ELSE d[2] + 9
        doy == (153 * mp + 2) \div 5 + d[3] - 1
        doe == yoe * 365 + yoe \div 4 - yoe \div 100 + doy
    IN  era * 146097 + doe - 719468
CivilFromDays(n) ==
    LET z == n + 719468
        era == z \div 146097
        doe == z - era * 146097
        yoe == (doe - doe \div 1460 + doe \div 36524 - doe \div 146096) \div 365
        doy == doe - (365 * yoe + yoe \div 4 - yoe \div 100)
        mp == (5 * doy + 2) \div 153
        dd == doy - (153 * mp + 2) \div 5 + 1
        mm == IF mp < 10 THEN mp + 3 ELSE mp - 9
        yy == yoe + era * 400
    IN  <<IF mm <= 2 THEN yy + 1 ELSE yy, mm, dd>>
\* the date n days after d (before, for n < 0): d + timedelta(days=n)
AddDays(d, n) == CivilFromDays(DaysFromCivil(d) + n)
\* (b - a).days
DaysBetween(a, b) == DaysFromCivil(b) - DaysFromCivil(a)

\* a date written the three ways the validator's formats read
FormatDMY(d) == Pad2(d[3]) \o <<"/">> \o Pad2(d[2]) \o <<"/">> \o Pad4(d[1])
FormatDMYDash(d) == Pad2(d[3]) \o <<"-">> \o Pad2(d[2]) \o <<"-">> \o Pad4(d[1])
FormatYMD(d) == Pad4(d[1]) \o <<"-">> \o Pad2(d[2]) \o <<"-">> \o Pad2(d[3])

Todays == { <<2026, 11, 6>>, <<2027, 12, 15>> }

TriggerCandidates == {
    <<"m","e","n","u">>,
    <<"h","i">>,
    <<" ","M","e","n","u"," ">>,
    <<"H","I">>,
    <<"h","e","l","l","o">>,
    <<"b","o","o","k"," ","a"," ","t","a","b","l","e">>,
    <<"t","a","b","l","e"," ","5">>,
    <<"h","i"," ","t","h","e","r","e">>,
    <<"r","e","s","e","r","v","e">> }

NameCandidates == {
    <<"A","s","h","a">>,
    <<"A">>,
    <<" "," ","R","a","v","i"," "," "," ","K","u","m","a","r"," ">>,
    <<"A","b","h","i","s","h","e","k">>,
    <<"M","e","e","r","a"," ","N","a","i","r">>,
    <<>> }

\* n digits: 9 8 7 6 5 4 3 2 1 0 9 8 ...
PhoneBody(n) == [i \in 1..n |-> DIGITS[((10 - i) % 10) + 1]]
PhoneCandidates ==
    { PhoneBody(n) : n \in 0..MaxPhoneDigits }
    \cup { <<"0">> \o PhoneBody(10), <<"9","1">> \o PhoneBody(10),
           <<"+","9","1"," ">> \o PhoneBody(10), <<"0","0">> \o PhoneBody(10),
           SubSeq(PhoneBody(10), 1, 5) \o <<"-">> \o SubSeq(PhoneBody(10), 6, 10),
           <<"0">> \o PhoneBody(9), <<"9","1">> \o PhoneBody(8),
           <<"c","a","l","l"," ">> \o PhoneBody(10) }

DateOffsets == (0 - MaxBack)..MaxAhead
DateCandidates(now) ==
    { FormatDMY(AddDays(now, k)) : k \in DateOffsets }
    \cup { FormatYMD(AddDays(now, k)) : k \in {0 - 1, 0, 91} }
    \cup { FormatDMYDash(AddDays(now, k)) : k \in {0 - 1, 0, 91} }
    \cup {
           <<"3","1","/","0","2","/","2","0","2","7">>,
           <<"0","0","/","0","1","/","2","0","2","7">>,
           <<"1","2","/","1","3","/","2","0","2","7">>,
           <<"2","9","/","0","2","/","2","0","2","8">>,
           <<"2","9","/","0","2","/","2","0","2","7">>,
           <<"2","0",".","1","2",".","2","0","2","7">>,
           <<"2","0","/","1","2","/","2","7">>,
           <<"t","o","m","o","r","r","o","w">>,
           <<"5","/","1","/","2","0","2","8">>,
           <<"o","n"," ","2","0","/","1","2","/","2","0","2","7">>,
           <<"2","0","/","1","2","/","2","0","2","7","1">>,
           <<"2","0","2","7","-","1","3","-","0","1">>,
           <<"1","/","1","/","2","0","2","0">>,
           <<"2","0","2","0","-","0","1","-","0","1">> }

TimeMinutes == {0, 29, 30, 31, 59, 60}
TimeCandidates ==
    { Pad2(h) \o <<":">> \o Pad2(m) : h \in 0..MaxHour, m \in TimeMinutes }
    \cup {
           <<"7",":","3","0">>,
           <<"1","9","3","0">>,
           <<"7",".","3","0">>,
           <<"7",":","3","0"," ","p","m">>,
           <<"1","2","3">>,
           <<"n","o","o","n">>,
           <<"1","9",":","5">>,
           <<"2","5",":","0","0">>,
           <<"1","2",":","7","5">>,
           <<"0","8","0","0"," ","h","r","s">> }

PartyCandidates ==
    { IntStr(n) : n \in 0..MaxParty }
    \cup {
           <<"a","b","c">>,
           <<"f","i","v","e">>,
           <<"t","w","e","n","t","y">>,
           <<"t","h","i","r","t","e","e","n">>,
           <<"5"," ","p","e","o","p","l","e">>,
           <<"-","5">>,
           <<"t","w","e","n","t","y"," ","o","n","e">>,
           <<"0","5">>,
           <<"0","0","7">>,
           <<"p","e","o","p","l","e"," ","2","1"," ","o","r"," ","5">>,
           <<"F","i","v","e">>,
           <<"z","e","r","o">> }

Candidates(now) ==
    { StrV(s) : s \in TriggerCandidates \cup NameCandidates \cup PhoneCandidates
                      \cup DateCandidates(now) \cup TimeCandidates \cup PartyCandidates }
    \cup { NoneV, IntV(0), IntV(5) }

Fields == {"name", "phone", "date", "time", "party_size"}
RequestedSlots == Fields \cup {"none"}
Intents == {"greet", "inform"}

----------------------------------------------------------------------------
(* The inputs the booking store is exercised on *)

MaxCalls == 2            \* at most MaxCalls calls are made (load_bookings or run)
MaxInitBookings == 2     \* the bookings file starts with 0..MaxInitBookings records

\* the slots of a filled form, and of a conversation that filled nothing
SlotsFilled == [name |-> StrV(<<"A","s","h","a">>),
                phone |-> StrV(<<"+","9","1"," ","9","8","7","6","5","4","3","2","1","0">>),
                date |-> StrV(<<"2","0","2","6","-","1","2","-","0","1">>),
                time |-> StrV(<<"1","9",":","3","0">>),
                party_size |-> IntV(4),
                special_request |-> NoneV]
SlotsEmpty == [name |-> NoneV, phone |-> NoneV, date |-> NoneV, time |-> NoneV,
               party_size |-> NoneV, special_request |-> NoneV]
SlotChoices == {SlotsFilled, SlotsEmpty}

BookingNumbers == {BookingIdMin, BookingIdMax}

\* the twilio package and the three environment variables: all there, or one missing
TwilioEnvs ==
    { [TwilioClient |-> c, twilio_sid |-> a, twilio_token |-> b, twilio_from |-> d] :
        c \in BOOLEAN, a \in BOOLEAN, b \in BOOLEAN, d \in BOOLEAN }
    \ { e \in [TwilioClient : BOOLEAN, twilio_sid : BOOLEAN, twilio_token : BOOLEAN,
               twilio_from : BOOLEAN] :
          Cardinality({ k \in {"TwilioClient", "twilio_sid", "twilio_token", "twilio_from"} :
                          ~e[k] }) > 1 }

\* n records written by earlier conversations
InitBookings(n) == [i \in 1..n |-> BookingRecord(SlotsFilled, BookingIdMin, i - 1 - n)]

\* text that json.load rejects: a store cut short, and an empty file
InvalidTexts ==
    { SubSeq(JsonDump(PyDict(PyList(InitBookings(n)))), 1, n + 3) : n \in 0..MaxInitBookings }
    \cup { <<>> }
\* JSON of an unexpected shape
MisshapenTexts == { JsonDump(PyDictEmpty), JsonDump(PyDict(PyNone)), JsonDump(PyNone) }

InitFiles ==
    { Absent }
    \cup { File(JsonDump(PyDict(PyList(InitBookings(n))))) : n \in 0..MaxInitBookings }
    \cup { File(JsonDump(PyList(InitBookings(n)))) : n \in 0..MaxInitBookings }
    \cup { File(t) : t \in InvalidTexts \cup MisshapenTexts }


\* ---- overlapping calls of atomic_write_json ----
NumWriters == 2          \* calls of atomic_write_json that may overlap
NumReaders == 1          \* readers of the target path
MaxDocBookings == 1      \* the documents written hold 0..MaxDocBookings records

Writers == 1..NumWriters
Readers == 1..NumReaders
\* inode 1 is the target file as it is before any call; call w creates inode 1 + w
Inodes == 1..(1 + NumWriters)
\* the documents passed to atomic_write_json
Documents == { PyDict(PyList(InitBookings(n))) : n \in 0..MaxDocBookings }
\* bytes of a file that no write has filled
Hole == T("NUL")

WriterIdle == [pc |-> "idle", doc |-> PyNone, fd |-> 0, pos |-> 0]
ReaderIdle == [pc |-> "idle", fd |-> 0, got |-> Absent]

----------------------------------------------------------------------------
(* Each specification leaves the other parts of the program at rest *)

ValIdle ==
    /\ slot_value = NoneV
    /\ requested_slot = "none"
    /\ intent_name = "inform"
    /\ today = <<2026, 11, 6>>
    /\ validator = "none"
    /\ result = NoneV

StoreIdle ==
    /\ fs = [p \in Paths |-> Absent]
    /\ pc = "idle"
    /\ op = "none"
    /\ clock = 0
    /\ booking_record = NoneV
    /\ messages = <<>>
    /\ ret = NoReturn
    /\ sms = NotAttempted
    /\ pre = [p \in Paths |-> Absent]
    /\ persist_failed = FALSE

AWIdle ==
    /\ original = Absent
    /\ dir = [p \in {BOOKINGS_FILE, TmpPath} |-> 0]
    /\ inodes = [i \in Inodes |-> <<>>]
    /\ writers = [w \in Writers |-> WriterIdle]
    /\ readers = [r \in Readers |-> ReaderIdle]

----------------------------------------------------------------------------
(* The validators applied to every input *)

InitVal ==
    /\ today \in Todays
    /\ slot_value \in Candidates(today)
    /\ requested_slot \in RequestedSlots
    /\ intent_name \in Intents
    /\ validator = "none"
    /\ result = NoneV
    /\ StoreIdle
    /\ AWIdle

CallValidateName ==
    /\ validator = "none"
    /\ validator' = "validate_name"
    /\ result' = validate_name(slot_value, requested_slot, intent_name)
    /\ UNCHANGED <<slot_value, requested_slot, intent_name, today>>
    /\ UNCHANGED <<storeVars, awVars>>

CallValidatePhone ==
    /\ validator = "none"
    /\ validator' = "validate_phone"
    /\ result' = validate_phone(slot_value, requested_slot, intent_name)
    /\ UNCHANGED <<slot_value, requested_slot, intent_name, today>>
    /\ UNCHANGED <<storeVars, awVars>>

CallValidateDate ==
    /\ validator = "none"
    /\ validator' = "validate_date"
    /\ result' = validate_date(slot_value, requested_slot, intent_name, today)
    /\ UNCHANGED <<slot_value, requested_slot, intent_name, today>>
    /\ UNCHANGED <<storeVars, awVars>>

CallValidateTime ==
    /\ validator = "none"
    /\ validator' = "validate_time"
    /\ result' = validate_time(slot_value, requested_slot, intent_name)
    /\ UNCHANGED <<slot_value, requested_slot, intent_name, today>>
    /\ UNCHANGED <<storeVars, awVars>>

CallValidatePartySize ==
    /\ validator = "none"
    /\ validator' = "validate_party_size"
    /\ result' = validate_party_size(slot_value, requested_slot, intent_name)
    /\ UNCHANGED <<slot_value, requested_slot, intent_name, today>>
    /\ UNCHANGED <<storeVars, awVars>>

NextVal ==
    \/ CallValidateName
    \/ CallValidatePhone
    \/ CallValidateDate
    \/ CallValidateTime
    \/ CallValidatePartySize


SpecVal == InitVal /\ [][NextVal]_vars

----------------------------------------------------------------------------
(* The booking store: load_bookings and save-booking, one call after another *)

Init ==
    /\ ValIdle
    /\ AWIdle
    /\ \E file \in InitFiles, bak \in {Absent, File(<<T("{")>>)} :
         fs = [p \in Paths |-> IF p = BOOKINGS_FILE THEN file
                               ELSE IF p = BakPath THEN bak ELSE Absent]
    /\ pc = "idle"
    /\ op = "none"
    /\ clock = 0
    /\ booking_record = NoneV
    /\ messages = <<>>
    /\ ret = NoReturn
    /\ sms = NotAttempted
    /\ pre = fs
    /\ persist_failed = FALSE

\* The fates of the file operations load_bookings makes are drawn only for the
\* operations it does make on the directory f: the first atomic_write_json when the
\* file is absent or of an unexpected shape, os.rename and the second
\* atomic_write_json when the except branch runs.
WritesFirst(f) ==
    \/ ~f[BOOKINGS_FILE].exists
    \/ LET data == JsonLoad(f[BOOKINGS_FILE].text)
       IN  data # JsonError /\ ~IsStore(data) /\ data.py # "list"
Recovers(f, w1) ==
    /\ f[BOOKINGS_FILE].exists
    /\ \/ JsonLoad(f[BOOKINGS_FILE].text) = JsonError
       \/ WritesFirst(f) /\ w1 # "ok"
FirstWriteFaults(f) == IF WritesFirst(f) THEN AtomicWriteFaults ELSE {"ok"}
RenameFates(f, w1) == IF Recovers(f, w1) THEN BOOLEAN ELSE {TRUE}
RecoverWriteFaults(f, w1) == IF Recovers(f, w1) THEN AtomicWriteFaults ELSE {"ok"}

\* no call is in progress
AtRest == pc \in {"idle", "returned", "raised"}

\* a direct call of load_bookings()
CallLoadBookings ==
    /\ AtRest
    /\ clock < MaxCalls
    /\ \E w1 \in FirstWriteFaults(fs) :
       \E ren \in RenameFates(fs, w1), w2 \in RecoverWriteFaults(fs, w1) :
         LET l == load_bookings(fs, w1, ren, w2)
         IN  /\ fs' = l.fs
             /\ ret' = l.ret
             /\ pc' = IF l.raised THEN "raised" ELSE "returned"
    /\ op' = "load_bookings"
    /\ pre' = fs
    /\ messages' = <<>>
    /\ sms' = NotAttempted
    /\ persist_failed' = FALSE
    /\ clock' = clock + 1
    /\ UNCHANGED booking_record
    /\ UNCHANGED <<valVars, awVars>>

\* ActionSaveBooking.run, lines 216-248: build the record, load, append, save
RunPersist ==
    /\ AtRest
    /\ clock < MaxCalls
    /\ \E slots \in SlotChoices, id \in BookingNumbers, w1 \in FirstWriteFaults(fs) :
       \E ren \in RenameFates(fs, w1), w2 \in RecoverWriteFaults(fs, w1),
          ws \in AtomicWriteFaults :
         LET rec == BookingRecord(slots, id, clock + 1)
             p == PersistBooking(fs, rec, w1, ren, w2, ws)
         IN  /\ booking_record' = rec
             /\ fs' = p.fs
             /\ persist_failed' = p.raised
             /\ pc' = IF p.raised THEN "raised" ELSE "persisted"
             /\ messages' = IF p.raised THEN <<>>
                            ELSE <<[kind |-> "Saved booking", detail |-> rec.name]>>
    /\ op' = "save_booking"
    /\ clock' = clock + 1
    /\ pre' = fs
    /\ ret' = NoReturn
    /\ sms' = NotAttempted
    /\ UNCHANGED <<valVars, awVars>>

\* lines 250-275: read the Twilio configuration and, if it is all there, send
RunNotify ==
    /\ pc = "persisted"
    /\ \E env \in TwilioEnvs, provider \in ProviderOutcomes :
         LET gate == /\ env.TwilioClient /\ env.twilio_sid /\ env.twilio_token
                     /\ env.twilio_from /\ Truthy(booking_record.phone)
             s == SendSms(gate, provider)
         IN  /\ sms' = s
             /\ pc' = IF s.raised THEN "raised" ELSE "notified"
    /\ UNCHANGED <<fs, op, clock, booking_record, messages, ret, pre, persist_failed>>
    /\ UNCHANGED <<valVars, awVars>>

\* lines 277-294: tell the user about the SMS and return the slot events
RunReturn ==
    /\ pc = "notified"
    /\ messages' = Append(messages, SmsMessage(sms, booking_record))
    /\ ret' = ReturnedSlots(booking_record)
    /\ pc' = "returned"
    /\ UNCHANGED <<fs, op, clock, booking_record, sms, pre, persist_failed>>
    /\ UNCHANGED <<valVars, awVars>>

Next ==
    \/ CallLoadBookings
    \/ RunPersist
    \/ RunNotify
    \/ RunReturn

Spec == Init /\ [][Next]_vars

----------------------------------------------------------------------------
(* Properties of the validators, checked under SpecVal *)

\* the validator v has run on a text candidate, with its own field requested
Ran(v, field) == validator = v /\ requested_slot = field /\ slot_value.t = "str"

\* C6: a trigger phrase ("menu", "hi", ... after trimming and lower-casing, or any
\* candidate the guard classifies as one) submitted as a name, phone, date, time or
\* party_size value is rejected by the field's validator, whatever the requested
\* slot and the intent: the validator returns the field unset (None).
C6_TriggerPhraseRejected ==
    (/\ validator # "none"
     /\ slot_value.t = "str"
     /\ \/ Lower(Strip(slot_value.s)) \in TRIGGER_WORDS
        \/ _is_trigger_phrase(slot_value, intent_name))
    => result = NoneV

\* C6 witness: "menu" was offered as the name while the name was requested
C6_Witness ==
    /\ Ran("validate_name", "name")
    /\ slot_value.s = <<"m","e","n","u">>
    /\ result = NoneV

\* C7 as stated: accepted exactly with 10 digits, 11 with a leading "0" or 12 with
\* a leading "91", and then the canonical 10-digit string (prefix stripped) is
\* returned; every other digit count is rejected.
C7_Original ==
    Ran("validate_phone", "phone") /\ ~_is_trigger_phrase(slot_value, intent_name)
    => LET digits == _normalize_digits(slot_value.s)
           n == Len(digits)
       IN  IF n = 10 THEN result = StrV(digits)
           ELSE IF n = 11 /\ digits[1] = "0" THEN result = StrV(SubSeq(digits, 2, 11))
           ELSE IF n = 12 /\ SubSeq(digits, 1, 2) = <<"9","1">>
                THEN result = StrV(SubSeq(digits, 3, 12))
           ELSE result = NoneV

\* C7 amended: validate_phone accepts exactly when the candidate holds between 7
\* and 15 digits, and returns the extracted digits as they are, no prefix stripped;
\* fewer than 7 or more than 15 digits are rejected.
C7_PhoneSevenToFifteenDigits ==
    Ran("validate_phone", "phone") /\ ~_is_trigger_phrase(slot_value, intent_name)
    => LET digits == SelectSeq(slot_value.s, IsDigit)
       IN  IF Len(digits) >= 7 /\ Len(digits) <= 15
           THEN result = StrV(digits)
           ELSE result = NoneV

\* C7 witness: an 11-digit number with a leading 0 comes back with its 0
C7_Witness ==
    /\ Ran("validate_phone", "phone")
    /\ slot_value.s = <<"0">> \o PhoneBody(10)
    /\ result = StrV(<<"0">> \o PhoneBody(10))

\* text of the shape DD/MM/YYYY: day "/" month "/" year, of 1-2, 1-2 and 4 digits
IsDMYForm(s) ==
    LET ps == SplitOn(s, "/")
    IN  /\ Len(ps) = 3
        /\ \A i \in 1..3 : AllDigits(ps[i])
        /\ Len(ps[1]) \in {1, 2} /\ Len(ps[2]) \in {1, 2} /\ Len(ps[3]) = 4

\* C8 as stated: a DD/MM/YYYY date from today through today + 90 days is accepted
\* and returned as YYYY-MM-DD; a date before today or more than 90 days after
\* today is rejected; input not in DD/MM/YYYY form is rejected.
C8_Original ==
    Ran("validate_date", "date")
    => /\ \A k \in DateOffsets :
            slot_value.s = FormatDMY(AddDays(today, k))
            => IF k >= 0 /\ k <= 90
               THEN result = StrV(FormatYMD(AddDays(today, k)))
               ELSE result = NoneV
       /\ ~IsDMYForm(slot_value.s) => result = NoneV

\* C8 amended: validate_date rejects every date strictly before today and accepts
\* every calendar date from today on, with no upper horizon, returning it as
\* YYYY-MM-DD; it reads DD/MM/YYYY, YYYY-MM-DD and DD-MM-YYYY alike; DD/MM/YYYY
\* text that names no calendar date, and text without a digit, is rejected.
C8_DateNotPastNoHorizon ==
    Ran("validate_date", "date")
    => /\ \A k \in DateOffsets :
            slot_value.s \in { FormatDMY(AddDays(today, k)),
                               FormatYMD(AddDays(today, k)),
                               FormatDMYDash(AddDays(today, k)) }
            => IF k >= 0
               THEN result = StrV(FormatYMD(AddDays(today, k)))
               ELSE result = NoneV
       /\ (/\ IsDMYForm(slot_value.s)
           /\ LET ps == SplitOn(slot_value.s, "/")
              IN  ~ValidDate(ToInt(ps[3]), ToInt(ps[2]), ToInt(ps[1])))
          => result = NoneV
       /\ (\A i \in 1..Len(slot_value.s) : ~IsDigit(slot_value.s[i]))
          => result = NoneV

\* C8 witness: the date 91 days after today, in DD/MM/YYYY, was accepted
C8_Witness ==
    /\ Ran("validate_date", "date")
    /\ slot_value.s = FormatDMY(AddDays(today, 91))
    /\ result = StrV(FormatYMD(AddDays(today, 91)))

\* text of the shape HH:MM
IsHMForm(s) ==
    /\ Len(s) = 5
    /\ s[3] = ":"
    /\ \A i \in {1, 2, 4, 5} : IsDigit(s[i])

\* C9 as stated: with the window opening 07:30 and closing 01:30, an HH:MM time is
\* accepted exactly when it is >= 07:30 or <= 01:30; input that is not an HH:MM
\* 24-hour time is rejected.
C9_Original ==
    Ran("validate_time", "time")
    => IF IsHMForm(slot_value.s)
          /\ ToInt(SubSeq(slot_value.s, 1, 2)) <= 23
          /\ ToInt(SubSeq(slot_value.s, 4, 5)) <= 59
       THEN LET minutes == ToInt(SubSeq(slot_value.s, 1, 2)) * 60
                           + ToInt(SubSeq(slot_value.s, 4, 5))
            IN  IF minutes >= 7 * 60 + 30 \/ minutes <= 60 + 30
                THEN result = StrV(slot_value.s)
                ELSE result = NoneV
       ELSE result = NoneV

\* C9 amended: validate_time applies no opening-hours window: every HH:MM text
\* with hour 0..23 and minute 0..59 is accepted and returned as HH:MM; HH:MM text
\* with an hour above 23 or a minute above 59, and text without a digit, is
\* rejected.
C9_TimeAnyHourOfDay ==
    Ran("validate_time", "time")
    => /\ IsHMForm(slot_value.s)
          => IF /\ ToInt(SubSeq(slot_value.s, 1, 2)) <= 23
                /\ ToInt(SubSeq(slot_value.s, 4, 5)) <= 59
             THEN result = StrV(slot_value.s)
             ELSE result = NoneV
       /\ (\A i \in 1..Len(slot_value.s) : ~IsDigit(slot_value.s[i]))
          => result = NoneV

\* C9 witness: 02:00, outside the 07:30-01:30 window, was accepted
C9_Witness ==
    /\ Ran("validate_time", "time")
    /\ slot_value.s = <<"0","2",":","0","0">>
    /\ result = StrV(<<"0","2",":","0","0">>)

\* C10 as stated: accepted exactly when the candidate is digits only and its value
\* lies in [1,20], and then that integer is returned; number words and every
\* other input are rejected.
C10_Original ==
    Ran("validate_party_size", "party_size")
    => IF /\ Len(slot_value.s) > 0 /\ AllDigits(slot_value.s)
          /\ ToInt(slot_value.s) >= 1 /\ ToInt(slot_value.s) <= 20
       THEN result = IntV(ToInt(slot_value.s))
       ELSE result = NoneV

\* C10 amended: for a candidate the trigger-phrase guard lets through,
\* validate_party_size takes the first run of digits in it or, when it holds no
\* digit, its first word among one..twenty (case-insensitive), and accepts exactly
\* when that number lies in [1,20], returning it as an integer: "1", "20", "05",
\* "5 people", "-5" and "five" are accepted, "0", "21" and "abc" are rejected.
C10_PartyFirstNumberInRange ==
    Ran("validate_party_size", "party_size") /\ ~_is_trigger_phrase(slot_value, intent_name)
    => LET s == slot_value.s
       IN  /\ \A n \in 0..MaxParty :
                s = IntStr(n) => result = (IF n >= 1 /\ n <= 20 THEN IntV(n) ELSE NoneV)
           /\ \A n \in 1..20 : s = _number_words[n] => result = IntV(n)
           /\ s = <<"0","5">> => result = IntV(5)
           /\ s = <<"5"," ","p","e","o","p","l","e">> => result = IntV(5)
           /\ s = <<"-","5">> => result = IntV(5)
           /\ s = <<"F","i","v","e">> => result = IntV(5)
           /\ s = <<"t","w","e","n","t","y"," ","o","n","e">> => result = IntV(20)
           /\ s = <<"p","e","o","p","l","e"," ","2","1"," ","o","r"," ","5">>
              => result = NoneV
           /\ s \in { <<"a","b","c">>, <<"z","e","r","o">>, <<>> } => result = NoneV

\* C10 witness: the number word "five" was accepted as 5
C10_Witness ==
    /\ Ran("validate_party_size", "party_size")
    /\ slot_value.s = <<"f","i","v","e">>
    /\ result = IntV(5)

----------------------------------------------------------------------------
(* atomic_write_json called by several writers at once, with readers of the
   target.  Every call uses the same temporary path, path + ".tmp".  A file is
   an inode; a path is a directory entry naming an inode; an open descriptor
   keeps its inode whatever the directory entries become. *)

InitAW ==
    /\ ValIdle
    /\ StoreIdle
    /\ original \in {Absent} \cup { File(JsonDump(d)) : d \in Documents }
    /\ dir = [p \in {BOOKINGS_FILE, TmpPath} |->
                IF p = BOOKINGS_FILE /\ original.exists THEN 1 ELSE 0]
    /\ inodes = [i \in Inodes |-> IF i = 1 /\ original.exists THEN original.text ELSE <<>>]
    /\ writers = [w \in Writers |-> WriterIdle]
    /\ readers = [r \in Readers |-> ReaderIdle]

\* write(2) at an offset: the chunk replaces what was there, a gap becomes a hole
WriteAt(text, pos, chunk) ==
    LET n == IF Len(text) > pos + Len(chunk) THEN Len(text) ELSE pos + Len(chunk)
    IN [i \in 1..n |->
          IF i > pos /\ i <= pos + Len(chunk) THEN chunk[i - pos]
          ELSE IF i <= Len(text) THEN text[i]
          ELSE Hole]

\* open(tmp, "w"): O_CREAT | O_TRUNC on the shared temporary path
AwOpen(w) ==
    /\ writers[w].pc = "idle"
    /\ \E data \in Documents :
         /\ IF dir[TmpPath] # 0
            THEN /\ inodes' = [inodes EXCEPT ![dir[TmpPath]] = <<>>]
                 /\ dir' = dir
                 /\ writers' = [writers EXCEPT ![w] =
                        [pc |-> "open", doc |-> data, fd |-> dir[TmpPath], pos |-> 0]]
            ELSE /\ inodes' = [inodes EXCEPT ![1 + w] = <<>>]
                 /\ dir' = [dir EXCEPT ![TmpPath] = 1 + w]
                 /\ writers' = [writers EXCEPT ![w] =
                        [pc |-> "open", doc |-> data, fd |-> 1 + w, pos |-> 0]]
    /\ UNCHANGED <<original, readers, valVars, storeVars>>

\* json.dump(data, f): the buffer is flushed to the descriptor in chunks
AwFlush(w) ==
    /\ writers[w].pc = "open"
    /\ LET text == JsonDump(writers[w].doc)
           pos == writers[w].pos
       IN /\ pos < Len(text)
          /\ \E n \in 1..(Len(text) - pos) :
               /\ inodes' = [inodes EXCEPT ![writers[w].fd] =
                                WriteAt(@, pos, SubSeq(text, pos + 1, pos + n))]
               /\ writers' = [writers EXCEPT ![w].pos = pos + n]
    /\ UNCHANGED <<original, dir, readers, valVars, storeVars>>

\* leaving the with block: what is still buffered is written, the descriptor closed
AwClose(w) ==
    /\ writers[w].pc = "open"
    /\ LET text == JsonDump(writers[w].doc)
           pos == writers[w].pos
       IN /\ inodes' = [inodes EXCEPT ![writers[w].fd] =
                           WriteAt(@, pos, SubSeq(text, pos + 1, Len(text)))]
          /\ writers' = [writers EXCEPT ![w].pc = "closed", ![w].pos = Len(text)]
    /\ UNCHANGED <<original, dir, readers, valVars, storeVars>>

\* os.replace(tmp, path): the target entry takes the inode the temporary entry
\* names now; FileNotFoundError when another call has already renamed it away
AwReplace(w) ==
    /\ writers[w].pc = "closed"
    /\ IF dir[TmpPath] = 0
       THEN /\ writers' = [writers EXCEPT ![w].pc = "raised"]
            /\ dir' = dir
       ELSE /\ writers' = [writers EXCEPT ![w].pc = "done"]
            /\ dir' = [dir EXCEPT ![BOOKINGS_FILE] = dir[TmpPath], ![TmpPath] = 0]
    /\ UNCHANGED <<original, inodes, readers, valVars, storeVars>>

\* a reader opens the target path (load_bookings: open(BOOKINGS_FILE, "r"))
ReadOpen(r) ==
    /\ readers[r].pc = "idle"
    /\ IF dir[BOOKINGS_FILE] = 0
       THEN readers' = [readers EXCEPT ![r] = [pc |-> "done", fd |-> 0, got |-> Absent]]
       ELSE readers' = [readers EXCEPT ![r].pc = "open", ![r].fd = dir[BOOKINGS_FILE]]
    /\ UNCHANGED <<original, dir, inodes, writers, valVars, storeVars>>

\* the reader reads the file it opened to its end (json.load(f) reads f whole)
ReadAll(r) ==
    /\ readers[r].pc = "open"
    /\ readers' = [readers EXCEPT ![r].pc = "done", ![r].got = File(inodes[readers[r].fd])]
    /\ UNCHANGED <<original, dir, inodes, writers, valVars, storeVars>>

NextAW ==
    \/ \E w \in Writers : AwOpen(w)
    \/ \E w \in Writers : AwFlush(w)
    \/ \E w \in Writers : AwClose(w)
    \/ \E w \in Writers : AwReplace(w)
    \/ \E r \in Readers : ReadOpen(r)
    \/ \E r \in Readers : ReadAll(r)

SpecAW == InitAW /\ [][NextAW]_vars

----------------------------------------------------------------------------
(* Properties of the booking store and of save-booking, checked under Spec *)

\* the records a reload yields now, and those it yielded when the call began
StoredNow == Reload(fs)
StoredBefore == Reload(pre)

\* C1: after an invocation of save-booking that wrote its record, reloading the
\* store yields the records present before the invocation, in the same order,
\* followed by the record just written; an invocation that raised before writing
\* leaves the records as they were.  No invocation removes, reorders or alters a
\* record.
C1_AppendOnly ==
    op = "save_booking"
    => /\ pc \in {"persisted", "notified", "returned"}
          => StoredNow = Append(StoredBefore, booking_record)
       /\ pc = "raised" => StoredNow = StoredBefore

\* C1 witness: a second call appended its record behind at least two records
C1_Witness ==
    /\ op = "save_booking" /\ pc = "returned" /\ clock = MaxCalls
    /\ Len(StoredBefore) >= 2
    /\ StoredNow = Append(StoredBefore, booking_record)

\* the bookings file held text that json.load rejects when the call began
PreInvalidJson ==
    /\ pre[BOOKINGS_FILE].exists
    /\ JsonLoad(pre[BOOKINGS_FILE].text) = JsonError

\* C3: if the bookings file exists and holds invalid JSON, load_bookings does not
\* raise, returns the empty store, leaves the empty store at the bookings path and
\* leaves the bad content in the backup file <bookings path>.bak.
C3_Original ==
    op = "load_bookings" /\ PreInvalidJson
    => /\ pc = "returned"
       /\ ret = Base
       /\ fs[BOOKINGS_FILE] = File(JsonDump(Base))
       /\ fs[BakPath] = pre[BOOKINGS_FILE]

\* C4: when persisting fails inside save-booking, the invocation still returns,
\* its last message to the user is the "technical issue, try again" message, and
\* booking_confirmed is not set.
C4_Original ==
    op = "save_booking" /\ persist_failed
    => /\ pc = "returned"
       /\ Len(messages) > 0
       /\ messages[Len(messages)].kind = "technical issue, try again"
       /\ ~ret.booking_confirmed

\* the last message the dispatcher uttered
LastMessage == messages[Len(messages)]

\* C5: the record is in the store before a send is attempted; whatever the
\* notifier does (skips, delivers, or the delivery raises) the store keeps the
\* record and the earlier ones unchanged, no exception leaves run(), and run()
\* returns booking_confirmed = True; a delivery error is reported to the user in
\* a message (with the error's text, when it has one) instead of being raised.
C5_NotifierAdvisory ==
    op = "save_booking"
    => /\ sms.attempted => pc \in {"notified", "returned"}
       /\ pc \in {"notified", "returned"}
          => /\ StoredNow = Append(StoredBefore, booking_record)
             /\ ~sms.raised
       /\ pc = "returned"
          => /\ ret.returned /\ ret.booking_confirmed
             /\ sms.sms_sent => LastMessage.kind = "A confirmation SMS was sent"
             /\ (sms.attempted /\ ~sms.sms_sent)
                => /\ LastMessage.kind \in
                        {"Booking saved, but failed to send SMS",
                         "Booking saved. (SMS not sent - Twilio not configured.)"}
                   /\ Truthy(sms.sms_error)
                      => LastMessage = [kind |-> "Booking saved, but failed to send SMS",
                                        detail |-> sms.sms_error]
             /\ ~sms.attempted
                => LastMessage.kind = "Booking saved. (SMS not sent - Twilio not configured.)"

\* C5 witness: the delivery raised, and run() returned the confirmation all the same
C5_Witness ==
    /\ op = "save_booking" /\ pc = "returned"
    /\ sms.attempted /\ ~sms.sms_sent /\ Truthy(sms.sms_error)
    /\ LastMessage.kind = "Booking saved, but failed to send SMS"
    /\ ret.booking_confirmed
    /\ StoredNow = Append(StoredBefore, booking_record)

----------------------------------------------------------------------------
(* Property of overlapping atomic_write_json calls, checked under SpecAW *)

\* the texts of the documents passed to the calls begun so far
PassedTexts == { JsonDump(writers[w].doc) : w \in { x \in Writers : writers[x].pc # "idle" } }

\* C2: in every interleaving of atomic_write_json calls on one target with
\* readers of it, each read of the target observes a complete JSON document
\* passed to some call, or the content present before any call; no reader
\* observes a partially written file.
C2_Original ==
    \A r \in Readers :
        readers[r].pc = "done"
        => \/ readers[r].got = original
           \/ readers[r].got.exists /\ readers[r].got.text \in PassedTexts

----------------------------------------------------------------------------
(* Property of load_bookings on a file that parses, checked under Spec *)

\* what json.load made of the bookings file as it was when the call began
PreData == JsonLoad(pre[BOOKINGS_FILE].text)
\* the file parsed, as a legacy flat array
PreLegacy == pre[BOOKINGS_FILE].exists /\ PreData # JsonError /\ PreData.py = "list"
\* the file parsed, as neither a store nor a legacy flat array
PreMisshapen ==
    /\ pre[BOOKINGS_FILE].exists
    /\ PreData # JsonError /\ ~IsStore(PreData) /\ PreData.py # "list"

\* C11: if the bookings file parses but is neither an object with a list under
\* "bookings" nor a legacy flat array, load_bookings renames the bad file to
\* <bookings path>.bak (the bad content survives as a backup), writes the empty
\* store to the bookings path and returns it; a legacy flat array is returned as
\* {"bookings": <that array>} with its records and their order unchanged.
C11_Original ==
    op = "load_bookings"
    => /\ PreMisshapen
          => /\ pc = "returned"
             /\ ret = Base
             /\ fs[BOOKINGS_FILE] = File(JsonDump(Base))
             /\ fs[BakPath] = pre[BOOKINGS_FILE]
       /\ PreLegacy
          => /\ pc = "returned"
             /\ ret = PyDict(PreData)

====
